---- MODULE Spec2Model ----
(***************************************************************************)
(* State-machine model of the PDF translation pipeline coordinator:        *)
(*   PDFTranslationWorkflow (src/src/workflows/pdf_translation_workflow.py)*)
(*   OCRWorkflow            (src/src/workflows/ocr_workflow.py)            *)
(*   TranslationWorkflow    (src/src/workflows/translation_workflow.py)    *)
(*   SiteGenerationWorkflow (src/src/workflows/site_generation_workflow.py)*)
(*   CleanupWorkflow        (src/src/workflows/cleanup_workflow.py)        *)
(* Every workflow coroutine is modelled by a program counter that names    *)
(* the await it is parked on; one action is the code that runs between two *)
(* awaits.  Activities (remote calls) are external: their outcome is drawn *)
(* from a small set, either a returned result or a terminal error (the     *)
(* retry policy is exhausted / the call timed out), which surfaces in the  *)
(* awaiting workflow as a raised exception.                                *)
(***************************************************************************)
EXTENDS Integers, Sequences, FiniteSets, TLC

(* ---------------------------- bounds ---------------------------------- *)
MaxPages == 2
MaxBlocksPerPage == 2
MaxSignals == 2

(* ------------------------- input domains ------------------------------ *)
\* URLs a user can send with provide_url ("" means "skip").
UserUrls == {"", "url_a"}
\* URL / name / description / blog link a successful product lookup returns.
FoundUrl == "url_found"
FoundName == "name_found"
FoundDescription == "desc_found"
FoundBlog == "blog_found"
\* Product name the LLM corrector may return.
CorrectedName == "name_corrected"
\* Python's None where a string is expected.
None == "None"
\* Python's None / an unassigned local where a record is expected.
Nothing == [nothing |-> TRUE]
\* A page task that has not settled yet.
Pending == [state |-> "pending"]
\* A page task that ended with a terminal error instead of a result.
Raised == [state |-> "raised"]
\* A page task that returned its PageOCRResult r.
Returned(r) == [state |-> "result", value |-> r]

VARIABLES
    \* PDFTranslationWorkflow
    pc,                  \* await at which PDFTranslationWorkflow.run is parked
    skip_cleanup,        \* input.skip_cleanup
    progress,            \* self._progress (WorkflowProgress)
    user_provided_url,   \* self._user_provided_url
    waiting_for_url,     \* self._waiting_for_url
    final_product_url,   \* local final_product_url of run
    ocr_result,          \* local ocr_result of run (OCROutput)
    translation_result,  \* local translation_result of run
    site_result,         \* local site_result of run
    cleanup_result,      \* local cleanup_result of run
    result,              \* PDFTranslationOutput returned by run, or None
    site_input,          \* SiteGenerationInput handed to the Site child
    \* OCRWorkflow
    ocr_pc,              \* await at which OCRWorkflow.run is parked
    ocr_locals,          \* locals product_url, product_name, ... of OCRWorkflow.run
    page_count,          \* local page_count
    ocr_tasks,           \* local ocr_tasks: page numbers in issue order
    page_results,        \* per task: Pending, Raised or Returned(PageOCRResult)
    ocr_output,          \* OCROutput returned by OCRWorkflow.run, or None
    \* TranslationWorkflow, SiteGenerationWorkflow, CleanupWorkflow
    translation_pc,
    translation_output,
    site_pc,
    site_output,
    cleanup_pc,
    cleanup_locals,      \* ftfy_fixes, rule_removals, gemini_* of CleanupWorkflow.run
    cleanup_output,
    \* observation (history) variables
    started,             \* child workflows in the order they were started
    completion,          \* page numbers in the order their tasks settled,
                         \* kept until the parent has taken the OCR result
    sig_count,           \* provide_url signals delivered so far
    susp_signal,         \* url of the first signal handled while suspended, or None
    resumes,             \* times run continued past wait_condition
    url_at_resume,       \* final_product_url at the moment run left the wait
    timed_out,           \* the 30 minute timer of wait_condition fired
    \* workflow log, query handler, activity retry
    warnings,            \* what the workflows wrote with workflow.logger.warning
    gemini_call,         \* the execution of gemini_cleanup_activity: the tuple
                         \* stage3_gemini_cleanup returned and the events in order
    queries,             \* get_progress queries served so far
    retry,               \* one activity call under its RetryPolicy
    cli,                 \* the translate command of cli.py: where run_translation
                         \* is, url_prompted, last_phase, and what it reported
    worker,              \* the worker processes translate spawns and the first
                         \* workflow task of the job it starts
    legacy,              \* DocAITranslateWorkflow.run on the same document:
                         \* its await, its locals, the calls it made, its output
    starts               \* the wall clock and the workflow ids given to the
                         \* jobs started so far, in order

parent_vars == <<pc, skip_cleanup, progress, user_provided_url, waiting_for_url,
                 final_product_url, ocr_result, translation_result, site_result,
                 cleanup_result, result, site_input>>
ocr_vars == <<ocr_pc, ocr_locals, page_count, ocr_tasks, page_results, ocr_output>>
child_vars == <<translation_pc, translation_output, site_pc, site_output,
                cleanup_pc, cleanup_locals, cleanup_output>>
hist_vars == <<started, completion, sig_count, susp_signal,
               resumes, url_at_resume, timed_out>>
deploy_vars == <<worker, legacy, starts>>
aux_vars == <<queries, retry, cli, deploy_vars>>
vars == <<parent_vars, ocr_vars, child_vars, hist_vars, warnings, gemini_call,
          aux_vars>>

(* --------------------------- retry policies --------------------------- *)
\* RetryPolicy objects the workflows hand to execute_activity; intervals in
\* seconds. QUICK_RETRY names no backoff_coefficient and so has the
\* RetryPolicy default of 2.0.
API_RETRY_SixAttempts ==
    [initial_interval |-> 2, maximum_interval |-> 30,
     maximum_attempts |-> 6, backoff_coefficient |-> 2]
API_RETRY ==
    [initial_interval |-> 2, maximum_interval |-> 30,
     maximum_attempts |-> 5, backoff_coefficient |-> 2]
QUICK_RETRY ==
    [initial_interval |-> 1, maximum_interval |-> 10,
     maximum_attempts |-> 3, backoff_coefficient |-> 2]
LLM_RETRY ==
    [initial_interval |-> 5, maximum_interval |-> 120,
     maximum_attempts |-> 3, backoff_coefficient |-> 2]

\* The policy each kind of activity call runs under.
RetryPolicies == {"API_RETRY", "QUICK_RETRY", "LLM_RETRY"}
PolicyOf(name) ==
    CASE name = "API_RETRY" -> API_RETRY
      [] name = "QUICK_RETRY" -> QUICK_RETRY
      [] name = "LLM_RETRY" -> LLM_RETRY

RECURSIVE Pow(_, _)
Pow(b, e) == IF e = 0 THEN 1 ELSE b * Pow(b, e - 1)

Min(a, b) == IF a <= b THEN a ELSE b

\* The wait before the retry that follows failed attempt number attempt
\* (1-based): initial_interval * backoff_coefficient^(attempt - 1), capped at
\* maximum_interval.
RetryIntervalFlat(policy, attempt) == policy.initial_interval
RetryInterval(policy, attempt) ==
    Min(policy.initial_interval * Pow(policy.backoff_coefficient, attempt - 1),
        policy.maximum_interval)

\* Errors an attempt of an activity can fail with.
ActivityErrors == {"error_a", "error_b"}

\* No translate command is attached to the job.
CliIdle ==
    [pc |-> "idle", url_prompted |-> FALSE, last_phase |-> None,
     report |-> Nothing]
\* translate has started the workflow and enters its polling loop.
CliStarted ==
    [pc |-> "polling", url_prompted |-> FALSE, last_phase |-> None,
     report |-> Nothing]

\* No translate command has spawned workers.
WorkerIdle ==
    [requested |-> 0, procs |-> 0, started |-> FALSE, task |-> "none",
     poller |-> 0, attempt |-> 0]

\* An activity call as a workflow makes it: the activity and, for a page
\* OCR task, the page number (-1 otherwise).
Call(activity, page_num) == [activity |-> activity, page |-> page_num]
\* DocAITranslateWorkflow.run has not been started.
LegacyIdle ==
    [pc |-> "idle", calls |-> <<>>, product_url |-> "", product_name |-> "",
     product_description |-> "", blog_url |-> "", all_blocks |-> <<>>,
     translated_blocks |-> <<>>, output |-> Nothing]

\* No job start is being followed.
NoStarts == [clock |-> 0, ids |-> <<>>]

\* No activity call is being followed.
RetryIdle ==
    [policy |-> None, attempt |-> 0, status |-> "idle",
     waits |-> <<>>, errors |-> <<>>, error |-> None, returned |-> None]
\* execute_activity(..., retry_policy=...) has scheduled the first attempt.
RetryScheduled(name) ==
    [policy |-> name, attempt |-> 1, status |-> "running",
     waits |-> <<>>, errors |-> <<>>, error |-> None, returned |-> None]

(* ------------------------- data records ------------------------------- *)
\* A line written with workflow.logger.warning: its text and, for the OCR
\* warning, the list of failed page numbers it prints.
WarningNoPages(text, pages) == [text |-> text, pages |-> <<>>]
Warning(text, pages) == [text |-> text, pages |-> pages]

\* TextBlock produced by ocr_page_activity for page page_num: page = page_num.
TextBlock(page_num, k) == [page |-> page_num, text |-> k]

\* PageOCRResult returned on the success path of ocr_page_activity.
PageOk(page_num, n) ==
    [page_num |-> page_num,
     blocks |-> [k \in 1..n |-> TextBlock(page_num, k)],
     success |-> TRUE]

\* PageOCRResult returned from the except branch of ocr_page_activity.
PageFailed(page_num) ==
    [page_num |-> page_num, blocks |-> <<>>, success |-> FALSE]

\* WorkflowProgress(phase="initializing")
WorkflowProgress ==
    [phase |-> "initializing", ocr_progress |-> "", translation_progress |-> "",
     site_progress |-> "", cleanup_progress |-> <<>>, pages_total |-> 0,
     blocks_total |-> 0, product_url |-> "", product_name |-> "",
     manual_name |-> "", waiting_for_url |-> FALSE]

\* @workflow.query get_progress: returns self._progress, changes nothing.
get_progress == progress

\* Fault variant: the early-abort output drops the phase's error.
FailureOutputNoError(nocr, ntr, url, name, phase, err) ==
    [output_dir |-> "", json_path |-> "", html_path |-> "",
     ocr_blocks |-> nocr, translated_blocks |-> ntr,
     product_url |-> url, product_name |-> name,
     success |-> FALSE, error |-> <<phase, None>>]

\* The early-abort PDFTranslationOutput.
FailureOutput(nocr, ntr, url, name, phase, err) ==
    [output_dir |-> "", json_path |-> "", html_path |-> "",
     ocr_blocks |-> nocr, translated_blocks |-> ntr,
     product_url |-> url, product_name |-> name,
     success |-> FALSE, error |-> <<phase, err>>]

(* --------------------------- Init ------------------------------------- *)
JobInit ==
    /\ pc = "init"
    /\ skip_cleanup \in BOOLEAN
    /\ progress = WorkflowProgress
    /\ user_provided_url = ""
    /\ waiting_for_url = FALSE
    /\ final_product_url = ""
    /\ ocr_result = Nothing
    /\ translation_result = Nothing
    /\ site_result = Nothing
    /\ cleanup_result = Nothing
    /\ result = Nothing
    /\ site_input = Nothing
    /\ ocr_pc = "idle"
    /\ ocr_locals = Nothing
    /\ page_count = 0
    /\ ocr_tasks = <<>>
    /\ page_results = <<>>
    /\ ocr_output = Nothing
    /\ translation_pc = "idle"
    /\ translation_output = Nothing
    /\ site_pc = "idle"
    /\ site_output = Nothing
    /\ cleanup_pc = "idle"
    /\ cleanup_locals = Nothing
    /\ cleanup_output = Nothing
    /\ started = <<>>
    /\ completion = <<>>
    /\ sig_count = 0
    /\ susp_signal = None
    /\ resumes = 0
    /\ url_at_resume = None
    /\ timed_out = FALSE
    /\ warnings = {}
    /\ gemini_call = Nothing
    /\ queries = 0

\* The job alone: no activity call is being followed attempt by attempt.
Init ==
    /\ JobInit
    /\ retry = RetryIdle
    /\ cli = CliIdle
    /\ worker = WorkerIdle
    /\ legacy = LegacyIdle
    /\ starts = NoStarts

(* ------------------- PDFTranslationWorkflow.run: start ---------------- *)
\* run up to its first await: phase "ocr", then the OCR child is started,
\* whose own run executes up to its first await (the product search).
StartRunAndTranslate ==
    /\ pc = "init"
    /\ progress' = [progress EXCEPT !.phase = "ocr",
                                    !.ocr_progress = "Starting OCR workflow..."]
    /\ started' = Append(started, "ocr")
    /\ ocr_pc' = "search"
    /\ translation_pc' = "activity"
    /\ pc' = "ocr"
    /\ UNCHANGED <<skip_cleanup, user_provided_url, waiting_for_url,
                   final_product_url, ocr_result, translation_result,
                   site_result, cleanup_result, result, site_input>>
    /\ UNCHANGED <<ocr_locals, page_count, ocr_tasks, page_results, ocr_output>>
    /\ UNCHANGED <<translation_output, site_pc, site_output, cleanup_pc,
                   cleanup_locals, cleanup_output>>
    /\ UNCHANGED <<completion, sig_count, susp_signal,
                   resumes, url_at_resume, timed_out>>
    /\ UNCHANGED <<warnings, aux_vars, gemini_call>>
StartRun ==
    /\ pc = "init"
    /\ progress' = [progress EXCEPT !.phase = "ocr",
                                    !.ocr_progress = "Starting OCR workflow..."]
    /\ started' = Append(started, "ocr")
    /\ ocr_pc' = "search"
    /\ pc' = "ocr"
    /\ UNCHANGED <<skip_cleanup, user_provided_url, waiting_for_url,
                   final_product_url, ocr_result, translation_result,
                   site_result, cleanup_result, result, site_input>>
    /\ UNCHANGED <<ocr_locals, page_count, ocr_tasks, page_results, ocr_output>>
    /\ UNCHANGED child_vars
    /\ UNCHANGED <<completion, sig_count, susp_signal,
                   resumes, url_at_resume, timed_out>>
    /\ UNCHANGED warnings
    /\ UNCHANGED aux_vars
    /\ UNCHANGED gemini_call

(* --------------------------- OCRWorkflow ------------------------------ *)
\* Dicts search_product_url_activity can return.
SearchFound ==
    [success |-> TRUE, url |-> FoundUrl, name |-> FoundName,
     description |-> FoundDescription, blog_url |-> FoundBlog]
SearchNotFound ==
    [success |-> FALSE, url |-> "", name |-> "manual_name",
     description |-> "", blog_url |-> ""]
SearchOutcomes == {SearchFound, SearchNotFound}

\* Step 1 of OCRWorkflow.run: the product search settles.
OCRSearchReturns ==
    /\ ocr_pc = "search"
    /\ \E r \in SearchOutcomes :
          /\ ocr_locals' =
              IF r.success
              THEN [product_url |-> r.url, product_name |-> r.name,
                    product_description |-> r.description,
                    blog_url |-> r.blog_url]
              ELSE [product_url |-> "", product_name |-> "",
                    product_description |-> "", blog_url |-> ""]
          /\ warnings' =
              IF r.success THEN warnings
              ELSE warnings \cup {Warning("Product not found", <<>>)}
    /\ ocr_pc' = "pagecount"
    /\ UNCHANGED <<page_count, ocr_tasks, page_results, ocr_output>>
    /\ UNCHANGED <<parent_vars, child_vars, hist_vars>>
    /\ UNCHANGED aux_vars
    /\ UNCHANGED gemini_call

\* An activity of OCRWorkflow.run awaited on its own (search, page count)
\* ends with a terminal error: the await raises and run does not catch it.
OCRActivityRaises ==
    /\ ocr_pc \in {"search", "pagecount"}
    /\ ocr_pc' = "raised"
    /\ UNCHANGED <<ocr_locals, page_count, ocr_tasks, page_results, ocr_output>>
    /\ UNCHANGED <<parent_vars, child_vars, hist_vars>>
    /\ UNCHANGED warnings
    /\ UNCHANGED aux_vars
    /\ UNCHANGED gemini_call

\* Fault variant: the loop runs over range(1, page_count + 1).
FanOutFromOne(n) == [j \in 1..n |-> j]

\* The task list built by "for page_num in range(page_count)".
FanOut(n) == [j \in 1..n |-> j - 1]

\* Step 2 and the fan-out of step 3: the page count settles and one
\* ocr_page_activity is started per page; run parks on asyncio.gather.
OCRPageCountReturns ==
    /\ ocr_pc = "pagecount"
    /\ \E n \in 0..MaxPages :
          /\ page_count' = n
          /\ ocr_tasks' = FanOut(n)
          /\ page_results' = [j \in 1..n |-> Pending]
    /\ ocr_pc' = "gather"
    /\ UNCHANGED <<ocr_locals, ocr_output>>
    /\ UNCHANGED <<parent_vars, child_vars, hist_vars>>
    /\ UNCHANGED warnings
    /\ UNCHANGED aux_vars
    /\ UNCHANGED gemini_call

\* What one ocr_page_activity(pdf_path, page_num) call can end with.
PageOutcomes(page_num) ==
    {Returned(PageOk(page_num, n)) : n \in 0..MaxBlocksPerPage}
        \cup {Returned(PageFailed(page_num)), Raised}

\* One page task settles, in any order relative to the others.
OCRPageSettles ==
    /\ ocr_pc = "gather"
    /\ \E j \in 1..Len(ocr_tasks) :
          /\ page_results[j] = Pending
          /\ \E o \in PageOutcomes(ocr_tasks[j]) :
                page_results' = [page_results EXCEPT ![j] = o]
          /\ completion' = Append(completion, ocr_tasks[j])
    /\ UNCHANGED <<ocr_pc, ocr_locals, page_count, ocr_tasks, ocr_output>>
    /\ UNCHANGED <<parent_vars, child_vars>>
    /\ UNCHANGED <<started, sig_count, susp_signal,
                   resumes, url_at_resume, timed_out>>
    /\ UNCHANGED warnings
    /\ UNCHANGED aux_vars
    /\ UNCHANGED gemini_call

\* asyncio.gather(*ocr_tasks) returns once every task has a result; the
\* list it returns is ordered like ocr_tasks, not by completion.
GatherReady(results) ==
    \A j \in 1..Len(results) : results[j].state = "result"
\* Fault variant: results are taken in the order the tasks settled.
GatherResultsByCompletion(tasks, results, order) ==
    [j \in 1..Len(tasks) |->
        results[CHOOSE i \in 1..Len(tasks) : tasks[i] = order[j]].value]
GatherResults(tasks, results, order) ==
    [j \in 1..Len(tasks) |-> results[j].value]

\* asyncio.gather without return_exceptions: the first task that raises
\* makes the await raise at once, whatever the state of the other tasks.
GatherRaises(results) ==
    \E j \in 1..Len(results) : results[j] = Raised

\* "Collect blocks": the loop over page_results.
RECURSIVE CollectBlocks(_)
CollectBlocks(rs) ==
    IF rs = <<>> THEN <<>>
    ELSE (IF Head(rs).success THEN Head(rs).blocks ELSE <<>>)
            \o CollectBlocks(Tail(rs))
RECURSIVE CollectFailed(_)
CollectFailed(rs) ==
    IF rs = <<>> THEN <<>>
    ELSE (IF Head(rs).success THEN <<>> ELSE <<Head(rs).page_num>>)
            \o CollectFailed(Tail(rs))

\* The OCROutput built at the end of OCRWorkflow.run.
OCROutputAlwaysOk(all_blocks, n, loc) ==
    [blocks |-> all_blocks, page_count |-> n,
     product_url |-> loc.product_url, product_name |-> loc.product_name,
     product_description |-> loc.product_description,
     blog_url |-> loc.blog_url,
     success |-> TRUE,
     error |-> None]
OCROutput(all_blocks, n, loc) ==
    [blocks |-> all_blocks, page_count |-> n,
     product_url |-> loc.product_url, product_name |-> loc.product_name,
     product_description |-> loc.product_description,
     blog_url |-> loc.blog_url,
     success |-> (all_blocks # <<>>),
     error |-> IF all_blocks = <<>> THEN "No text blocks found" ELSE None]

\* The fan-in: gather returns, blocks are collected, OCRWorkflow.run returns.
OCRGatherReturns ==
    /\ ocr_pc = "gather"
    /\ GatherReady(page_results)
    /\ LET rs == GatherResults(ocr_tasks, page_results, completion)
           failed_pages == CollectFailed(rs)
       IN  /\ ocr_output' = OCROutput(CollectBlocks(rs), page_count, ocr_locals)
           /\ warnings' =
                 IF failed_pages # <<>>
                 THEN warnings \cup {Warning("OCR failed on pages", failed_pages)}
                 ELSE warnings
    /\ ocr_pc' = "done"
    /\ UNCHANGED <<ocr_locals, page_count, ocr_tasks, page_results>>
    /\ UNCHANGED <<parent_vars, child_vars, hist_vars>>
    /\ UNCHANGED aux_vars
    /\ UNCHANGED gemini_call

\* The fan-in fails: gather raises and OCRWorkflow.run ends with that error.
OCRGatherRaises ==
    /\ ocr_pc = "gather"
    /\ GatherRaises(page_results)
    /\ ocr_pc' = "raised"
    /\ UNCHANGED <<ocr_locals, page_count, ocr_tasks, page_results, ocr_output>>
    /\ UNCHANGED <<parent_vars, child_vars, hist_vars>>
    /\ UNCHANGED warnings
    /\ UNCHANGED aux_vars
    /\ UNCHANGED gemini_call

(* ------------- PDFTranslationWorkflow.run: after the OCR child -------- *)
\* Fault variant: the early-abort test is missing.
PhaseFailedNever(out) == FALSE

\* "if not <phase>_result.success": the early-abort test after each child.
PhaseFailed(out) == ~out.success

\* Fault variant: the suspension is never entered.
NeedsUrlNever(url) == FALSE

\* "if not final_product_url": the lookup did not resolve a URL.
NeedsUrl(url) == url = ""

\* "Phase 2: Translation": phase and status are set and the Translation
\* child is started; its run executes up to translate_blocks_activity.
EnterTranslationFromStart(prog) ==
    /\ progress' = [prog EXCEPT !.phase = "initializing",
                                !.translation_progress = "Translating..."]
    /\ started' = Append(started, "translation")
    /\ translation_pc' = "activity"
    /\ pc' = "translation"
EnterTranslation(prog) ==
    /\ progress' = [prog EXCEPT !.phase = "translation",
                                !.translation_progress = "Translating..."]
    /\ started' = Append(started, "translation")
    /\ translation_pc' = "activity"
    /\ pc' = "translation"

\* The OCR child returned its OCROutput: early abort, suspension, or on to
\* Translation when the lookup resolved a URL.
OCRChildReturns ==
    /\ pc = "ocr"
    /\ ocr_pc = "done"
    /\ ocr_result' = ocr_output
    /\ IF PhaseFailed(ocr_output)
       THEN /\ result' = FailureOutput(0, 0, "", "", "OCR failed", ocr_output.error)
            /\ pc' = "done"
            /\ UNCHANGED <<progress, waiting_for_url, final_product_url,
                           started, translation_pc>>
       ELSE LET prog == [progress EXCEPT
                           !.pages_total = ocr_output.page_count,
                           !.blocks_total = Len(ocr_output.blocks),
                           !.product_url = ocr_output.product_url,
                           !.product_name = ocr_output.product_name,
                           !.manual_name = "manual_name",
                           !.ocr_progress = "Complete: blocks from pages"]
            IN  /\ final_product_url' = ocr_output.product_url
                /\ UNCHANGED result
                /\ IF NeedsUrl(ocr_output.product_url)
                   THEN /\ waiting_for_url' = TRUE
                        /\ progress' = [prog EXCEPT
                              !.waiting_for_url = TRUE,
                              !.ocr_progress = "Complete - Waiting for product URL..."]
                        /\ pc' = "wait"
                        /\ UNCHANGED <<started, translation_pc>>
                   ELSE /\ EnterTranslation(prog)
                        /\ UNCHANGED waiting_for_url
    /\ UNCHANGED <<skip_cleanup, user_provided_url, translation_result,
                   site_result, cleanup_result, site_input>>
    /\ UNCHANGED ocr_vars
    /\ completion' = <<>>
    /\ UNCHANGED <<translation_output, site_pc, site_output, cleanup_pc,
                   cleanup_locals, cleanup_output>>
    /\ UNCHANGED <<sig_count, susp_signal,
                   resumes, url_at_resume, timed_out>>
    /\ UNCHANGED warnings
    /\ UNCHANGED aux_vars
    /\ UNCHANGED gemini_call

\* The child workflow the parent is awaiting ended with an error:
\* execute_child_workflow raises and run does not catch it.
ChildRaises ==
    /\ \/ pc = "ocr" /\ ocr_pc = "raised"
       \/ pc = "translation" /\ translation_pc = "raised"
       \/ pc = "site" /\ site_pc = "raised"
       \/ pc = "cleanup" /\ cleanup_pc = "raised"
    /\ pc' = "raised"
    /\ UNCHANGED <<skip_cleanup, progress, user_provided_url, waiting_for_url,
                   final_product_url, ocr_result, translation_result,
                   site_result, cleanup_result, result, site_input>>
    /\ UNCHANGED <<ocr_vars, child_vars, hist_vars>>
    /\ UNCHANGED warnings
    /\ UNCHANGED aux_vars
    /\ UNCHANGED gemini_call

(* ------------------------ suspension protocol ------------------------- *)
\* The states in which the workflow accepts signals: run has started and
\* has neither returned nor failed.
Running == pc \notin {"init", "done", "raised"}

\* Fault variant: the handler clears only the internal flag.
provide_url_InternalFlagOnly(url) ==
    /\ user_provided_url' = url
    /\ waiting_for_url' = FALSE
    /\ UNCHANGED progress
\* @workflow.signal provide_url(url)
provide_url(url) ==
    /\ user_provided_url' = url
    /\ waiting_for_url' = FALSE
    /\ progress' = [progress EXCEPT !.waiting_for_url = FALSE]

\* A provide_url signal is delivered and its handler runs.
ProvideUrl ==
    /\ Running
    /\ sig_count < MaxSignals
    /\ \E url \in UserUrls :
          /\ provide_url(url)
          /\ susp_signal' = IF pc = "wait" /\ waiting_for_url /\ susp_signal = None
                            THEN url ELSE susp_signal
    /\ sig_count' = sig_count + 1
    /\ UNCHANGED <<pc, skip_cleanup, final_product_url, ocr_result,
                   translation_result, site_result, cleanup_result, result,
                   site_input>>
    /\ UNCHANGED <<ocr_vars, child_vars>>
    /\ UNCHANGED <<started, completion, resumes, url_at_resume, timed_out>>
    /\ UNCHANGED warnings
    /\ UNCHANGED aux_vars
    /\ UNCHANGED gemini_call

\* wait_condition(lambda: not self._waiting_for_url) is satisfied: run
\* continues with the stored URL and enters Translation.
Resume ==
    /\ pc = "wait"
    /\ ~waiting_for_url
    /\ final_product_url' = user_provided_url
    /\ EnterTranslation([progress EXCEPT !.product_url = user_provided_url])
    /\ resumes' = resumes + 1
    /\ url_at_resume' = user_provided_url
    /\ UNCHANGED <<skip_cleanup, user_provided_url, waiting_for_url, ocr_result,
                   translation_result, site_result, cleanup_result, result,
                   site_input>>
    /\ UNCHANGED ocr_vars
    /\ UNCHANGED <<translation_output, site_pc, site_output, cleanup_pc,
                   cleanup_locals, cleanup_output>>
    /\ UNCHANGED <<completion, sig_count, susp_signal,
                   timed_out>>
    /\ UNCHANGED warnings
    /\ UNCHANGED aux_vars
    /\ UNCHANGED gemini_call

\* The timeout of wait_condition elapses while the condition is still
\* false: wait_condition raises asyncio.TimeoutError, for which run has no
\* handler, so run ends with that error instead of going on to line 138.
Timeout ==
    /\ pc = "wait"
    /\ waiting_for_url
    /\ timed_out' = TRUE
    /\ pc' = "raised"
    /\ UNCHANGED <<skip_cleanup, progress, user_provided_url, waiting_for_url,
                   final_product_url, ocr_result, translation_result,
                   site_result, cleanup_result, result, site_input>>
    /\ UNCHANGED <<ocr_vars, child_vars>>
    /\ UNCHANGED <<started, completion, sig_count, susp_signal,
                   resumes, url_at_resume>>
    /\ UNCHANGED warnings
    /\ UNCHANGED aux_vars
    /\ UNCHANGED gemini_call

(* ------------------------ TranslationWorkflow ------------------------- *)
\* Blocks for which the translation service may send no translation back.
TranslationShortfall == {0, 1}

\* TranslatedBlock built by translate_blocks_activity from an OCR block.
TranslatedBlock(b) == [page |-> b.page, original |-> b.text]

\* translate_blocks_activity returns a TranslationResult (k translations
\* came back from the service) and TranslationWorkflow.run maps it to its
\* TranslationOutput.
TranslationOutputs(blocks) ==
    {[translated_blocks |-> [i \in 1..k |-> TranslatedBlock(blocks[i])],
      success |-> TRUE, error |-> None] :
          k \in {Len(blocks) - d : d \in TranslationShortfall} \cap (0..Len(blocks))}
        \cup {[translated_blocks |-> <<>>, success |-> FALSE,
               error |-> "translate error"]}

TranslationActivityReturns ==
    /\ translation_pc = "activity"
    /\ \E o \in TranslationOutputs(ocr_result.blocks) : translation_output' = o
    /\ translation_pc' = "done"
    /\ UNCHANGED <<site_pc, site_output, cleanup_pc, cleanup_locals, cleanup_output>>
    /\ UNCHANGED <<parent_vars, ocr_vars, hist_vars>>
    /\ UNCHANGED warnings
    /\ UNCHANGED aux_vars
    /\ UNCHANGED gemini_call

\* The single activity of the Translation or Site-Generation child ends
\* with a terminal error; the child's run does not catch it.
PhaseActivityRaises ==
    /\ \/ translation_pc = "activity" /\ translation_pc' = "raised"
                                      /\ UNCHANGED site_pc
       \/ site_pc = "activity" /\ site_pc' = "raised"
                               /\ UNCHANGED translation_pc
    /\ UNCHANGED <<translation_output, site_output, cleanup_pc, cleanup_locals,
                   cleanup_output>>
    /\ UNCHANGED <<parent_vars, ocr_vars, hist_vars>>
    /\ UNCHANGED warnings
    /\ UNCHANGED aux_vars
    /\ UNCHANGED gemini_call

\* The SiteGenerationInput run builds for the Site child: the translated
\* blocks, final_product_url and the blog URL of the OCR output.
SiteGenerationInputFromSignal(blocks, url, blog) ==
    [translated_blocks |-> blocks, product_url |-> user_provided_url,
     blog_url |-> blog]
SiteGenerationInput(blocks, url, blog) ==
    [translated_blocks |-> blocks, product_url |-> url, blog_url |-> blog]

\* The Translation child returned: early abort, or on to Site-Generation.
TranslationChildReturns ==
    /\ pc = "translation"
    /\ translation_pc = "done"
    /\ translation_result' = translation_output
    /\ IF PhaseFailed(translation_output)
       THEN /\ result' = FailureOutput(Len(ocr_result.blocks), 0,
                                       ocr_result.product_url,
                                       ocr_result.product_name,
                                       "Translation failed",
                                       translation_output.error)
            /\ pc' = "done"
            /\ UNCHANGED <<progress, site_input, started, site_pc>>
       ELSE /\ progress' = [progress EXCEPT
                              !.translation_progress = "Complete: blocks",
                              !.phase = "site_generation",
                              !.site_progress = "Generating web viewer..."]
            /\ site_input' =
                  SiteGenerationInput(translation_output.translated_blocks,
                                      final_product_url, ocr_result.blog_url)
            /\ started' = Append(started, "site")
            /\ site_pc' = "activity"
            /\ pc' = "site"
            /\ UNCHANGED result
    /\ UNCHANGED <<skip_cleanup, user_provided_url, waiting_for_url,
                   final_product_url, ocr_result, site_result, cleanup_result>>
    /\ UNCHANGED ocr_vars
    /\ UNCHANGED <<translation_pc, translation_output, site_output, cleanup_pc,
                   cleanup_locals, cleanup_output>>
    /\ UNCHANGED <<completion, sig_count, susp_signal,
                   resumes, url_at_resume, timed_out>>
    /\ UNCHANGED warnings
    /\ UNCHANGED aux_vars
    /\ UNCHANGED gemini_call

(* ----------------------- SiteGenerationWorkflow ----------------------- *)
\* generate_site_activity returns a SiteOutput and SiteGenerationWorkflow.run
\* maps it to its SiteGenerationOutput.
SiteOutputs(inp, npages) ==
    {[json_path |-> "translations.json", html_path |-> "viewer.html",
      page_count |-> npages, block_count |-> Len(inp.translated_blocks),
      success |-> TRUE, error |-> None],
     [json_path |-> "", html_path |-> "", page_count |-> 0, block_count |-> 0,
      success |-> FALSE, error |-> "site error"]}

SiteActivityReturns ==
    /\ site_pc = "activity"
    /\ \E o \in SiteOutputs(site_input, page_count) : site_output' = o
    /\ site_pc' = "done"
    /\ UNCHANGED <<translation_pc, translation_output, cleanup_pc,
                   cleanup_locals, cleanup_output>>
    /\ UNCHANGED <<parent_vars, ocr_vars, hist_vars>>
    /\ UNCHANGED warnings
    /\ UNCHANGED aux_vars
    /\ UNCHANGED gemini_call

\* The success PDFTranslationOutput.
SuccessOutputSwapped(site, nocr, ntr, url, name) ==
    [output_dir |-> "output_dir", json_path |-> site.json_path,
     html_path |-> site.html_path, ocr_blocks |-> ntr,
     translated_blocks |-> nocr, product_url |-> url, product_name |-> name,
     success |-> TRUE, error |-> <<>>]
SuccessOutput(site, nocr, ntr, url, name) ==
    [output_dir |-> "output_dir", json_path |-> site.json_path,
     html_path |-> site.html_path, ocr_blocks |-> nocr,
     translated_blocks |-> ntr, product_url |-> url, product_name |-> name,
     success |-> TRUE, error |-> <<>>]

\* Fault variant: Cleanup runs whatever the input says.
RunsCleanupAlways == TRUE
\* "if not input.skip_cleanup": Phase 4 runs.
RunsCleanup == ~skip_cleanup

\* The Site child returned: early abort, Cleanup, or (skip_cleanup) the end.
SiteChildReturns ==
    /\ pc = "site"
    /\ site_pc = "done"
    /\ site_result' = site_output
    /\ IF PhaseFailed(site_output)
       THEN /\ result' = FailureOutput(Len(ocr_result.blocks),
                                       Len(translation_result.translated_blocks),
                                       ocr_result.product_url,
                                       ocr_result.product_name,
                                       "Site generation failed",
                                       site_output.error)
            /\ pc' = "done"
            /\ UNCHANGED <<progress, started, cleanup_pc>>
       ELSE IF RunsCleanup
       THEN /\ progress' = [progress EXCEPT
                              !.site_progress = "Complete: pages",
                              !.phase = "cleanup",
                              !.cleanup_progress = <<"Running 3-stage cleanup...">>]
            /\ started' = Append(started, "cleanup")
            /\ cleanup_pc' = "ftfy"
            /\ pc' = "cleanup"
            /\ UNCHANGED result
       ELSE /\ progress' = [progress EXCEPT
                              !.site_progress = "Complete: pages",
                              !.cleanup_progress = <<"Skipped">>,
                              !.phase = "complete"]
            /\ result' = SuccessOutput(site_output, Len(ocr_result.blocks),
                                       Len(translation_result.translated_blocks),
                                       final_product_url,
                                       ocr_result.product_name)
            /\ pc' = "done"
            /\ UNCHANGED <<started, cleanup_pc>>
    /\ UNCHANGED <<skip_cleanup, user_provided_url, waiting_for_url,
                   final_product_url, ocr_result, translation_result,
                   cleanup_result, site_input>>
    /\ UNCHANGED ocr_vars
    /\ UNCHANGED <<translation_pc, translation_output, site_pc, site_output,
                   cleanup_locals, cleanup_output>>
    /\ UNCHANGED <<completion, sig_count, susp_signal,
                   resumes, url_at_resume, timed_out>>
    /\ UNCHANGED warnings
    /\ UNCHANGED aux_vars
    /\ UNCHANGED gemini_call

(* --------------------------- CleanupWorkflow -------------------------- *)
\* Dicts ftfy_cleanup_activity / rule_based_cleanup_activity can return:
\* a count on success, count 0 with an error from the except branch.
CountOutcomes ==
    {[success |-> TRUE, count |-> n] : n \in 0..1}
        \cup {[success |-> FALSE, count |-> 0]}

\* The counter run keeps for a stage: 0, replaced by the count of the
\* result only when the result has success.
StageCountAlways(r) == 1
StageCount(r) == IF r.success THEN r.count ELSE 0

\* Stage 1: ftfy settles.
CleanupFtfyReturns ==
    /\ cleanup_pc = "ftfy"
    /\ \E r \in CountOutcomes :
          /\ cleanup_locals' = [ftfy_result |-> r,
                                ftfy_fixes |-> StageCount(r)]
          /\ warnings' = IF r.success THEN warnings
                         ELSE warnings \cup {Warning("Cleanup 1/3", <<>>)}
    /\ cleanup_pc' = "rules"
    /\ UNCHANGED <<translation_pc, translation_output, site_pc, site_output,
                   cleanup_output>>
    /\ UNCHANGED <<parent_vars, ocr_vars, hist_vars>>
    /\ UNCHANGED aux_vars
    /\ UNCHANGED gemini_call

\* Stage 2: the rule-based pass settles.
CleanupRulesReturns ==
    /\ cleanup_pc = "rules"
    /\ \E r \in CountOutcomes :
          /\ cleanup_locals' = [ftfy_result |-> cleanup_locals.ftfy_result,
                                ftfy_fixes |-> cleanup_locals.ftfy_fixes,
                                rules_result |-> r,
                                rule_removals |-> StageCount(r)]
          /\ warnings' = IF r.success THEN warnings
                         ELSE warnings \cup {Warning("Cleanup 2/3", <<>>)}
    /\ cleanup_pc' = "gemini"
    /\ UNCHANGED <<translation_pc, translation_output, site_pc, site_output,
                   cleanup_output>>
    /\ UNCHANGED <<parent_vars, ocr_vars, hist_vars>>
    /\ UNCHANGED aux_vars
    /\ UNCHANGED gemini_call

\* Tuples stage3_gemini_cleanup returns: (corrections, corrected_name, error).
Stage3Returns ==
    {<<n, name, None>> : n \in 0..1, name \in {None, CorrectedName}}
        \cup {<<0, None, "gemini error">>}

\* gemini_cleanup_activity: unpacks the tuple into
\* (corrections, corrected_name, tags, error); a tuple of another length
\* makes the unpacking raise, which the except branch turns into a failure.
gemini_cleanup_activity(t) ==
    IF Len(t) = 4
    THEN [success |-> (t[4] = None), corrections |-> t[1],
          corrected_product_name |-> t[2], error |-> t[4]]
    ELSE [success |-> FALSE, corrections |-> 0,
          corrected_product_name |-> None, error |-> "unpack error"]

\* What one execution of gemini_cleanup_activity does, in order, once the
\* translations file is loaded: a heartbeat, the call of
\* stage3_gemini_cleanup, and, when the unpacking of its tuple did not raise,
\* the second heartbeat.
gemini_events(t) ==
    <<"heartbeat", "stage3_gemini_cleanup">>
        \o (IF Len(t) = 4 THEN <<"heartbeat">> ELSE <<>>)

\* The CleanupOutput CleanupWorkflow.run returns: the counters of the three
\* stages, success always True, and as error only the Gemini stage's error.
CleanupOutputAsStage(loc, g) ==
    [ftfy_fixes |-> loc.ftfy_fixes,
     rule_removals |-> loc.rule_removals,
     gemini_corrections |-> IF g.success THEN g.corrections ELSE 0,
     corrected_product_name |->
         IF g.success THEN g.corrected_product_name ELSE None,
     success |-> g.success /\ loc.ftfy_result.success /\ loc.rules_result.success,
     error |-> IF g.success THEN None ELSE g.error]
CleanupOutput(loc, g) ==
    [ftfy_fixes |-> loc.ftfy_fixes,
     rule_removals |-> loc.rule_removals,
     gemini_corrections |-> IF g.success THEN g.corrections ELSE 0,
     corrected_product_name |->
         IF g.success THEN g.corrected_product_name ELSE None,
     success |-> TRUE,
     error |-> IF g.success THEN None ELSE g.error]

\* Stage 3: the Gemini activity settles and CleanupWorkflow.run returns.
CleanupGeminiReturns ==
    /\ cleanup_pc = "gemini"
    /\ \E t \in Stage3Returns :
          LET g == gemini_cleanup_activity(t)
          IN  /\ cleanup_locals' =
                     [ftfy_result |-> cleanup_locals.ftfy_result,
                      ftfy_fixes |-> cleanup_locals.ftfy_fixes,
                      rules_result |-> cleanup_locals.rules_result,
                      rule_removals |-> cleanup_locals.rule_removals,
                      gemini_result |-> g]
              /\ cleanup_output' = CleanupOutput(cleanup_locals, g)
              /\ gemini_call' = [returned |-> t, events |-> gemini_events(t)]
              /\ warnings' = IF g.success THEN warnings
                             ELSE warnings \cup {Warning("Cleanup 3/3", <<>>)}
    /\ cleanup_pc' = "done"
    /\ UNCHANGED <<translation_pc, translation_output, site_pc, site_output>>
    /\ UNCHANGED <<parent_vars, ocr_vars, hist_vars>>
    /\ UNCHANGED aux_vars

\* A Cleanup activity ends with a terminal error; CleanupWorkflow.run has
\* no handler around its awaits.
CleanupActivityRaises ==
    /\ cleanup_pc \in {"ftfy", "rules", "gemini"}
    /\ cleanup_pc' = "raised"
    /\ UNCHANGED <<translation_pc, translation_output, site_pc, site_output,
                   cleanup_locals, cleanup_output>>
    /\ UNCHANGED <<parent_vars, ocr_vars, hist_vars>>
    /\ UNCHANGED warnings
    /\ UNCHANGED aux_vars
    /\ UNCHANGED gemini_call

\* The Cleanup child returned: status summary, final name, phase complete.
CleanupChildReturns ==
    /\ pc = "cleanup"
    /\ cleanup_pc = "done"
    /\ cleanup_result' = cleanup_output
    /\ progress' = [progress EXCEPT
                      !.cleanup_progress =
                          <<"Complete", cleanup_output.ftfy_fixes,
                            cleanup_output.rule_removals,
                            cleanup_output.gemini_corrections>>,
                      !.phase = "complete"]
    /\ result' = SuccessOutput(site_result, Len(ocr_result.blocks),
                               Len(translation_result.translated_blocks),
                               final_product_url,
                               IF cleanup_output.corrected_product_name
                                      \notin {None, ""}
                               THEN cleanup_output.corrected_product_name
                               ELSE ocr_result.product_name)
    /\ pc' = "done"
    /\ UNCHANGED <<skip_cleanup, user_provided_url, waiting_for_url,
                   final_product_url, ocr_result, translation_result,
                   site_result, site_input>>
    /\ UNCHANGED <<ocr_vars, child_vars, hist_vars>>
    /\ UNCHANGED warnings
    /\ UNCHANGED aux_vars
    /\ UNCHANGED gemini_call

(* --------------------------- specification ---------------------------- *)
Next ==
    \/ StartRun
    \/ OCRSearchReturns
    \/ OCRActivityRaises
    \/ OCRPageCountReturns
    \/ OCRPageSettles
    \/ OCRGatherReturns
    \/ OCRGatherRaises
    \/ OCRChildReturns
    \/ ChildRaises
    \/ ProvideUrl
    \/ Resume
    \/ Timeout
    \/ TranslationActivityReturns
    \/ PhaseActivityRaises
    \/ TranslationChildReturns
    \/ SiteActivityReturns
    \/ SiteChildReturns
    \/ CleanupFtfyReturns
    \/ CleanupRulesReturns
    \/ CleanupGeminiReturns
    \/ CleanupActivityRaises
    \/ CleanupChildReturns

Spec == Init /\ [][Next]_vars

(* ------------------------ the get_progress query ---------------------- *)
job_vars == <<parent_vars, ocr_vars, child_vars, hist_vars, warnings,
              gemini_call>>

\* Bound on the queries a client sends.
MaxQueries == 1

\* The query handler: returns self._progress and assigns nothing. It is
\* served whatever run is doing: not started, parked at an await, ended.
GetProgressClearsFlag ==
    /\ queries < MaxQueries
    /\ queries' = queries + 1
    /\ progress' = [progress EXCEPT !.waiting_for_url = FALSE]
    /\ UNCHANGED <<pc, skip_cleanup, user_provided_url, waiting_for_url,
                   final_product_url, ocr_result, translation_result,
                   site_result, cleanup_result, result, site_input>>
    /\ UNCHANGED <<ocr_vars, child_vars, hist_vars, warnings, gemini_call,
                   retry, cli, deploy_vars>>
GetProgress ==
    /\ queries < MaxQueries
    /\ queries' = queries + 1
    /\ UNCHANGED <<job_vars, retry, cli, deploy_vars>>

QueryNext ==
    \/ Next
    \/ GetProgress

\* The job together with a client that queries it.
QuerySpec == Init /\ [][QueryNext]_vars

(* ------------------------ the translate command ----------------------- *)
\* One pass of the polling loop that queries get_progress while the
\* workflow waits for a URL and the command has not prompted yet: the user
\* is prompted, provide_url is signalled with the answer, and the pass ends
\* in the sleep (the phase of a waiting workflow is "ocr").
CliPollPrompts ==
    /\ cli.pc = "polling"
    /\ get_progress.waiting_for_url
    /\ ~cli.url_prompted
    /\ \E url \in UserUrls :
          /\ provide_url(url)
          /\ susp_signal' = IF pc = "wait" /\ waiting_for_url /\ susp_signal = None
                            THEN url ELSE susp_signal
    /\ sig_count' = sig_count + 1
    /\ cli' = [cli EXCEPT !.url_prompted = TRUE,
                          !.last_phase = get_progress.phase]
    /\ UNCHANGED <<pc, skip_cleanup, final_product_url, ocr_result,
                   translation_result, site_result, cleanup_result, result,
                   site_input>>
    /\ UNCHANGED <<ocr_vars, child_vars>>
    /\ UNCHANGED <<started, completion, resumes, url_at_resume, timed_out>>
    /\ UNCHANGED <<warnings, gemini_call, queries, retry, deploy_vars>>

\* One pass of the loop that neither prompts nor sees phase "complete":
\* the display is updated and the command sleeps 500 ms in the loop.
CliPollSleeps ==
    /\ cli.pc = "polling"
    /\ ~(get_progress.waiting_for_url /\ ~cli.url_prompted)
    /\ get_progress.phase # "complete"
    /\ cli' = [cli EXCEPT !.last_phase = get_progress.phase]
    /\ UNCHANGED <<job_vars, queries, retry, deploy_vars>>

\* One pass of the loop that sees phase "complete": break, the only exit
\* of the loop.
CliPollBreaks ==
    /\ cli.pc = "polling"
    /\ get_progress.phase = "complete"
    /\ cli' = [cli EXCEPT !.pc = "result", !.last_phase = "complete"]
    /\ UNCHANGED <<job_vars, queries, retry, deploy_vars>>

\* handle.result() returns the PDFTranslationOutput and translate prints
\* the success summary or "Translation failed" with result.error.
CliReportsResult ==
    /\ cli.pc = "result"
    /\ pc = "done"
    /\ cli' = [cli EXCEPT
                  !.pc = "reported",
                  !.report = [success |-> result.success,
                              error |-> IF result.success THEN <<>>
                                        ELSE result.error]]
    /\ UNCHANGED <<job_vars, queries, retry, deploy_vars>>

CliInit ==
    /\ JobInit
    /\ retry = RetryIdle
    /\ cli = CliStarted
    /\ worker = WorkerIdle
    /\ legacy = LegacyIdle
    /\ starts = NoStarts

CliNext ==
    \/ Next
    \/ CliPollPrompts
    \/ CliPollSleeps
    \/ CliPollBreaks
    \/ CliReportsResult

\* The job run from the translate command.
CliSpec == CliInit /\ [][CliNext]_vars

(* ------------------- one activity call under its policy --------------- *)
\* The attempt in flight fails: with attempts left the call backs off for
\* RetryInterval, otherwise the call ends with this attempt's error.
AttemptFails ==
    /\ retry.status = "running"
    /\ \E e \in ActivityErrors :
          LET policy == PolicyOf(retry.policy)
          IN  IF retry.attempt < policy.maximum_attempts
              THEN retry' = [retry EXCEPT
                                !.status = "backoff",
                                !.errors = Append(@, e),
                                !.waits = Append(@, RetryInterval(policy,
                                                                  retry.attempt))]
              ELSE retry' = [retry EXCEPT
                                !.status = "failed",
                                !.errors = Append(@, e),
                                !.error = e]
    /\ UNCHANGED <<job_vars, queries, cli, deploy_vars>>

\* The backoff wait is over: the next attempt starts.
BackoffElapses ==
    /\ retry.status = "backoff"
    /\ retry' = [retry EXCEPT !.status = "running", !.attempt = @ + 1]
    /\ UNCHANGED <<job_vars, queries, cli, deploy_vars>>

\* The attempt in flight succeeds: the call returns its result.
AttemptSucceeds ==
    /\ retry.status = "running"
    /\ retry' = [retry EXCEPT !.status = "completed", !.returned = "result"]
    /\ UNCHANGED <<job_vars, queries, cli, deploy_vars>>

\* The attempt in flight hits an error inside the try block of the activity
\* (ocr_page_activity, translate_blocks_activity, ...): the except branch
\* returns the failure result, so the attempt completes and the call returns
\* that result.
AttemptCatchesError ==
    /\ retry.status = "running"
    /\ retry' = [retry EXCEPT !.status = "completed",
                              !.returned = "failure_result"]
    /\ UNCHANGED <<job_vars, queries, cli, deploy_vars>>

RetryInit ==
    /\ JobInit
    /\ cli = CliIdle
    /\ worker = WorkerIdle
    /\ legacy = LegacyIdle
    /\ starts = NoStarts
    /\ retry \in {RetryScheduled(name) : name \in RetryPolicies}

RetryNext ==
    \/ AttemptFails
    \/ BackoffElapses
    \/ AttemptSucceeds
    \/ AttemptCatchesError

\* An activity call followed attempt by attempt, for each of the policies.
RetrySpec == RetryInit /\ [][RetryNext]_vars

(* ------------------- the workers translate spawns -------------------- *)
\* Bound on the "--workers" option (its default is 3).
MaxWorkers == 3
\* Bound on the attempts of one workflow task that are followed; the
\* server retries a failed workflow task without limit.
MaxTaskAttempts == 5

\* The Worker of src/worker.py: the workflow and activity types it serves.
WorkerWorkflows == {"DocAITranslateWorkflow"}
WorkerActivities ==
    {"ocr_document_activity", "get_pdf_page_count_activity",
     "ocr_page_activity", "translate_blocks_activity",
     "create_overlay_pdf_activity", "generate_site_activity",
     "search_product_url_activity", "cleanup_translations_activity"}

\* The workflow type translate starts with client.start_workflow.
StartedWorkflow == "PDFTranslationWorkflow"
\* The child workflow types PDFTranslationWorkflow.run executes, all on its
\* own task queue.
ChildWorkflows ==
    {"OCRWorkflow", "TranslationWorkflow", "SiteGenerationWorkflow",
     "CleanupWorkflow"}
\* The activity types the child workflows execute.
OCRActivities ==
    {"search_product_url_activity", "get_pdf_page_count_activity",
     "ocr_page_activity"}
TranslationActivities == {"translate_blocks_activity"}
SiteActivities == {"generate_site_activity"}
CleanupActivities ==
    {"ftfy_cleanup_activity", "rule_based_cleanup_activity",
     "gemini_cleanup_activity"}
\* Every type a job started by translate needs a worker for.
JobWorkflows == {StartedWorkflow} \cup ChildWorkflows
JobActivities ==
    OCRActivities \cup TranslationActivities \cup SiteActivities
        \cup CleanupActivities

\* translate is given "--workers" n and has spawned nothing yet.
WorkerRequested(n) ==
    [requested |-> n, procs |-> 0, started |-> FALSE, task |-> "none",
     poller |-> 0, attempt |-> 0]

\* translate spawns one more "python -m src.worker" process.
CliSpawnsWorker ==
    /\ ~worker.started
    /\ worker.procs < worker.requested
    /\ worker' = [worker EXCEPT !.procs = @ + 1]
    /\ UNCHANGED <<job_vars, queries, retry, cli, legacy, starts>>

\* All workers are spawned: translate starts the workflow on the task
\* queue "pdf-translation", and the server schedules its first workflow task.
CliStartsWorkflow ==
    /\ ~worker.started
    /\ worker.procs = worker.requested
    /\ worker' = [worker EXCEPT !.started = TRUE, !.task = "scheduled",
                                !.attempt = 1]
    /\ UNCHANGED <<job_vars, queries, retry, cli, legacy, starts>>

\* One of the spawned workers, all polling the task queue, gets the task.
WorkerPollsTask ==
    /\ worker.task = "scheduled"
    /\ \E w \in 1..worker.procs :
          worker' = [worker EXCEPT !.task = "polled", !.poller = w]
    /\ UNCHANGED <<job_vars, queries, retry, cli, legacy, starts>>

\* The worker handles the workflow task: it runs the workflow when it has
\* the task's workflow type registered; otherwise it fails the task, and
\* the server schedules the task again.
WorkerHandlesTask ==
    /\ worker.task = "polled"
    /\ IF StartedWorkflow \in WorkerWorkflows
       THEN worker' = [worker EXCEPT !.task = "completed"]
       ELSE worker' = [worker EXCEPT
                         !.task = IF worker.attempt < MaxTaskAttempts
                                  THEN "scheduled" ELSE "failed",
                         !.attempt = IF worker.attempt < MaxTaskAttempts
                                     THEN @ + 1 ELSE @,
                         !.poller = 0]
    /\ UNCHANGED <<job_vars, queries, retry, cli, legacy, starts>>

WorkerInit ==
    /\ JobInit
    /\ retry = RetryIdle
    /\ cli = CliIdle
    /\ worker \in {WorkerRequested(n) : n \in 1..MaxWorkers}
    /\ legacy = LegacyIdle
    /\ starts = NoStarts

WorkerNext ==
    \/ CliSpawnsWorker
    \/ CliStartsWorkflow
    \/ WorkerPollsTask
    \/ WorkerHandlesTask

\* The translate command up to the first workflow task of the job it starts.
WorkerSpec == WorkerInit /\ [][WorkerNext]_vars

(* ----------------------- DocAITranslateWorkflow ----------------------- *)
\* The single-workflow orchestrator of src/workflow.py, run on the document
\* and input of a job that PDFTranslationWorkflow has returned from, every
\* activity settling as it did for that job.

\* The dict search_product_url_activity returned to OCRWorkflow.run.
SearchResultOf(loc) ==
    IF loc.product_url # "" THEN SearchFound ELSE SearchNotFound

\* DocAITranslateOutput of an early return: product_url and product_name
\* are not passed and keep their default "".
LegacyFailureOutput(nocr, ntr, err) ==
    [ocr_blocks |-> nocr, translated_blocks |-> ntr, product_url |-> "",
     product_name |-> "", success |-> FALSE, error |-> err]
\* DocAITranslateOutput of the final return.
LegacySuccessOutput(nocr, ntr, url, name) ==
    [ocr_blocks |-> nocr, translated_blocks |-> ntr, product_url |-> url,
     product_name |-> name, success |-> TRUE, error |-> None]

\* run is started and awaits the product search.
LegacyStart ==
    /\ pc = "done"
    /\ legacy.pc = "idle"
    /\ legacy' = [legacy EXCEPT
                    !.pc = "search",
                    !.calls = <<Call("search_product_url_activity", -1)>>]
    /\ UNCHANGED <<job_vars, queries, retry, cli, worker, starts>>

\* Step 1: the search settles; step 2 awaits the page count.
LegacySearchReturns ==
    /\ legacy.pc = "search"
    /\ LET r == SearchResultOf(ocr_locals)
       IN  legacy' = [legacy EXCEPT
              !.pc = "pagecount",
              !.product_url = IF r.success THEN r.url ELSE "",
              !.product_name = IF r.success THEN r.name ELSE "",
              !.product_description = IF r.success THEN r.description ELSE "",
              !.blog_url = IF r.success THEN r.blog_url ELSE "",
              !.calls = Append(@, Call("get_pdf_page_count_activity", -1))]
    /\ UNCHANGED <<job_vars, queries, retry, cli, worker, starts>>

\* Step 2 settles; step 3 starts one ocr_page_activity per page and awaits
\* asyncio.gather.
LegacyPageCountReturns ==
    /\ legacy.pc = "pagecount"
    /\ legacy' = [legacy EXCEPT
          !.pc = "gather",
          !.calls = @ \o [j \in 1..page_count |->
                             Call("ocr_page_activity", FanOut(page_count)[j])]]
    /\ UNCHANGED <<job_vars, queries, retry, cli, worker, starts>>

\* The fan-in: blocks are collected; with no block run returns a failure,
\* otherwise step 4 awaits the translation.
LegacyGatherReturns ==
    /\ legacy.pc = "gather"
    /\ LET all_blocks ==
               CollectBlocks(GatherResults(ocr_tasks, page_results, <<>>))
       IN  IF all_blocks = <<>>
           THEN legacy' = [legacy EXCEPT
                   !.pc = "done",
                   !.output = LegacyFailureOutput(0, 0,
                                  "No text blocks found in document")]
           ELSE legacy' = [legacy EXCEPT
                   !.pc = "translate",
                   !.all_blocks = all_blocks,
                   !.calls = Append(@, Call("translate_blocks_activity", -1))]
    /\ UNCHANGED <<job_vars, queries, retry, cli, worker, starts>>

\* Step 4 settles: early return, or step 5 awaits the site generation.
LegacyTranslationReturns ==
    /\ legacy.pc = "translate"
    /\ LET translation == translation_output
       IN  IF ~translation.success
           THEN legacy' = [legacy EXCEPT
                   !.pc = "done",
                   !.output = LegacyFailureOutput(Len(legacy.all_blocks), 0,
                                  <<"Translation failed", translation.error>>)]
           ELSE legacy' = [legacy EXCEPT
                   !.pc = "site",
                   !.translated_blocks = translation.translated_blocks,
                   !.calls = Append(@, Call("generate_site_activity", -1))]
    /\ UNCHANGED <<job_vars, queries, retry, cli, worker, starts>>

\* Step 5 settles: early return, the final return when skip_cleanup, or
\* stage 1 of step 6 awaits ftfy.
LegacySiteReturns ==
    /\ legacy.pc = "site"
    /\ LET site == site_output
       IN  IF ~site.success
           THEN legacy' = [legacy EXCEPT
                   !.pc = "done",
                   !.output = LegacyFailureOutput(Len(legacy.all_blocks),
                                  Len(legacy.translated_blocks),
                                  <<"Site generation failed", site.error>>)]
           ELSE IF ~skip_cleanup
           THEN legacy' = [legacy EXCEPT
                   !.pc = "ftfy",
                   !.calls = Append(@, Call("ftfy_cleanup_activity", -1))]
           ELSE legacy' = [legacy EXCEPT
                   !.pc = "done",
                   !.output = LegacySuccessOutput(Len(legacy.all_blocks),
                                  Len(legacy.translated_blocks),
                                  legacy.product_url, legacy.product_name)]
    /\ UNCHANGED <<job_vars, queries, retry, cli, worker, starts>>

\* Stage 1 settles (its result is only logged); stage 2 is awaited.
LegacyFtfyReturns ==
    /\ legacy.pc = "ftfy"
    /\ legacy' = [legacy EXCEPT
          !.pc = "rules",
          !.calls = Append(@, Call("rule_based_cleanup_activity", -1))]
    /\ UNCHANGED <<job_vars, queries, retry, cli, worker, starts>>

\* Stage 2 settles (its result is only logged); stage 3 is awaited.
LegacyRulesReturns ==
    /\ legacy.pc = "rules"
    /\ legacy' = [legacy EXCEPT
          !.pc = "gemini",
          !.calls = Append(@, Call("gemini_cleanup_activity", -1))]
    /\ UNCHANGED <<job_vars, queries, retry, cli, worker, starts>>

\* Stage 3 settles: a successful result with a corrected name replaces
\* product_name; run returns its final output.
LegacyGeminiReturns ==
    /\ legacy.pc = "gemini"
    /\ LET gemini_result == cleanup_locals.gemini_result
           product_name ==
               IF gemini_result.success
                  /\ gemini_result.corrected_product_name \notin {None, ""}
               THEN gemini_result.corrected_product_name
               ELSE legacy.product_name
       IN  legacy' = [legacy EXCEPT
              !.pc = "done",
              !.product_name = product_name,
              !.output = LegacySuccessOutput(Len(legacy.all_blocks),
                             Len(legacy.translated_blocks),
                             legacy.product_url, product_name)]
    /\ UNCHANGED <<job_vars, queries, retry, cli, worker, starts>>

LegacyNext ==
    \/ Next
    \/ LegacyStart
    \/ LegacySearchReturns
    \/ LegacyPageCountReturns
    \/ LegacyGatherReturns
    \/ LegacyTranslationReturns
    \/ LegacySiteReturns
    \/ LegacyFtfyReturns
    \/ LegacyRulesReturns
    \/ LegacyGeminiReturns

\* A job run by PDFTranslationWorkflow and then by DocAITranslateWorkflow.
LegacySpec == Init /\ [][LegacyNext]_vars

(* --------------------------- workflow ids ----------------------------- *)
\* Bounds: job starts followed, clock ticks followed, and the clock ticks
\* that make one second (datetime.now() is finer than the "%S" it is
\* formatted with).
MaxStarts == 2
MaxClock == 3
TicksPerSecond == 2

\* Document names (Path(pdf_path).stem), as the sequence of their characters.
ManualNames == {<<"a", " ", "b">>, <<"a", "-", "b">>, <<"c">>}

\* manual_name.replace(' ', '-')
ReplaceSpaces(name) ==
    [i \in 1..Len(name) |-> IF name[i] = " " THEN "-" ELSE name[i]]
\* A number below 100 as two decimal digits ("%S").
TwoDigits(n) ==
    LET digit == <<"0", "1", "2", "3", "4", "5", "6", "7", "8", "9">>
    IN  <<digit[(n \div 10) + 1], digit[(n % 10) + 1]>>
\* datetime.now().strftime("%Y%m%d-%H%M%S") at clock tick t: the date, hour
\* and minute are those of the first tick, the seconds are whole seconds.
Strftime(t) == <<"20260101-0000">> \o TwoDigits(t \div TicksPerSecond)

\* The id translate gives a job.
CliWorkflowId(name, t) ==
    <<"translate-">> \o ReplaceSpaces(name) \o <<"-">> \o Strftime(t)
\* The id start_translation of server.py gives a job.
ServerWorkflowId(stem) == <<"translate-">> \o stem
\* The ids PDFTranslationWorkflow.run gives its child workflows.
ChildIds(id) ==
    {id \o <<suffix>> : suffix \in {"-ocr", "-translation", "-site", "-cleanup"}}

\* The wall clock advances.
ClockTicks ==
    /\ starts.clock < MaxClock
    /\ starts' = [starts EXCEPT !.clock = @ + 1]
    /\ UNCHANGED <<job_vars, queries, retry, cli, worker, legacy>>

\* toku translate starts a job for a document.
CliStartsJob ==
    /\ Len(starts.ids) < MaxStarts
    /\ \E name \in ManualNames :
          starts' = [starts EXCEPT
                       !.ids = Append(@, CliWorkflowId(name, starts.clock))]
    /\ UNCHANGED <<job_vars, queries, retry, cli, worker, legacy>>

\* POST /api/translate starts a job for a document.
ServerStartsJob ==
    /\ Len(starts.ids) < MaxStarts
    /\ \E stem \in ManualNames :
          starts' = [starts EXCEPT !.ids = Append(@, ServerWorkflowId(stem))]
    /\ UNCHANGED <<job_vars, queries, retry, cli, worker, legacy>>

StartsNext ==
    \/ ClockTicks
    \/ CliStartsJob
    \/ ServerStartsJob

\* Jobs being started, one after the other, while time passes.
StartsSpec == Init /\ [][StartsNext]_vars

(* ============================ properties ============================== *)
Range(seq) == {seq[i] : i \in 1..Len(seq)}
IsPrefix(a, b) == Len(a) <= Len(b) /\ SubSeq(b, 1, Len(a)) = a
PhaseOrder == <<"ocr", "translation", "site", "cleanup">>

\* C1: the phase children are started in the order OCR, Translation,
\* Site-Generation, Cleanup, each at most once, and each only after its
\* predecessor has returned an output with success = true.
C1_PhasesInOrder ==
    /\ IsPrefix(started, PhaseOrder)
    /\ "translation" \in Range(started) =>
           ocr_pc = "done" /\ ocr_output.success /\ ocr_result = ocr_output
    /\ "site" \in Range(started) =>
           translation_pc = "done" /\ translation_output.success
               /\ translation_result = translation_output
    /\ "cleanup" \in Range(started) =>
           site_pc = "done" /\ site_output.success /\ site_result = site_output
C1_Witness == started = PhaseOrder

\* C2: when OCR, Translation or Site-Generation returns success = false the
\* job ends at once with success = false and an error carrying that phase's
\* error, and no later phase (Cleanup included) is ever started.
C2_FailedPhaseAborts ==
    /\ (ocr_pc = "done" /\ ~ocr_output.success) =>
           /\ started = <<"ocr">>
           /\ pc \in {"ocr", "done"}
           /\ pc = "done" => /\ ~result.success
                             /\ result.error = <<"OCR failed", ocr_output.error>>
    /\ (translation_pc = "done" /\ ~translation_output.success) =>
           /\ started = <<"ocr", "translation">>
           /\ pc \in {"translation", "done"}
           /\ pc = "done" =>
                 /\ ~result.success
                 /\ result.error = <<"Translation failed", translation_output.error>>
    /\ (site_pc = "done" /\ ~site_output.success) =>
           /\ started = <<"ocr", "translation", "site">>
           /\ pc \in {"site", "done"}
           /\ pc = "done" =>
                 /\ ~result.success
                 /\ result.error = <<"Site generation failed", site_output.error>>
C2_Witness ==
    /\ pc = "done"
    /\ site_pc = "done"
    /\ ~site_output.success
    /\ ~result.success

\* The step that consumes a successful OCR output without a URL parks the
\* run at the wait with the flag set and Translation not started.
C3_SuspendStep ==
    (pc = "ocr" /\ pc' \notin {"ocr", "raised"}
        /\ ocr_output.success /\ ocr_output.product_url = "")
    => /\ pc' = "wait"
       /\ waiting_for_url'
       /\ get_progress'.waiting_for_url
       /\ "translation" \notin Range(started')
\* Translation started without a URL from the lookup implies a resume event.
C3_NoTranslationBeforeResume ==
    (ocr_pc = "done" /\ ocr_output.success /\ ocr_output.product_url = ""
        /\ "translation" \in Range(started))
    => (susp_signal # None \/ timed_out)
\* C3: if the lookup resolved no URL and OCR succeeds, the waiting flag
\* becomes true (and is what get_progress returns) in a state strictly
\* before Translation is started, and Translation is started only after a
\* resume event (a signal handled during the wait, or the timeout).
C3_WaitingBeforeTranslation ==
    [][C3_SuspendStep]_vars /\ []C3_NoTranslationBeforeResume
C3_Witness ==
    /\ ocr_pc = "done"
    /\ ocr_output.product_url = ""
    /\ "translation" \in Range(started)
    /\ sig_count = MaxSignals

\* C4: a provide_url(u) handled while the job is suspended (run parked at
\* the wait, waiting flag true) resumes the job, and the URL handed to
\* Site-Generation and reported as product_url of a successful result is u.
C4_SignalUrlUsed ==
    susp_signal # None =>
        /\ pc = "wait" => ~waiting_for_url
        /\ "site" \in Range(started) => site_input.product_url = susp_signal
        /\ (pc = "done" /\ result.success) => result.product_url = susp_signal

\* C5: when the timeout of the wait elapses with no signal, the job resumes,
\* goes on to Translation and uses "" as the resolved URL; it does not fail.
C5_TimeoutResumesEmpty ==
    timed_out =>
        /\ pc # "raised"
        /\ "translation" \in Range(started)
        /\ final_product_url = ""

\* C6: a provide_url handled before run reaches the wait is not lost: when
\* run then enters the suspension the wait is already satisfied with that
\* signal's value, without a further signal or the timeout.
C6_EarlySignalKept ==
    [][(pc = "ocr" /\ pc' = "wait" /\ sig_count > 0)
          => (~waiting_for_url' /\ ~get_progress'.waiting_for_url)]_vars

\* The run went through the suspension and is no longer parked at the wait.
SuspensionOver ==
    /\ pc \notin {"init", "ocr", "wait"}
    /\ ocr_pc = "done"
    /\ ocr_output.success
    /\ ocr_output.product_url = ""
\* C7: each suspension ends with exactly one resume transition, whatever the
\* signals and the timeout; after it, signals change neither the URL handed
\* to Site-Generation nor the product_url of the result.
C7_ExactlyOneResume ==
    /\ resumes <= 1
    /\ SuspensionOver => resumes = 1
    /\ resumes = 1 =>
          /\ final_product_url = url_at_resume
          /\ "site" \in Range(started) => site_input.product_url = url_at_resume
          /\ (pc = "done" /\ result.success) => result.product_url = url_at_resume

\* C8: for every page count N the fan-out issues exactly one page task per
\* index 0..N-1, and every aggregated block has a page index in 0..N-1,
\* non-decreasing along the list.
C8_FanOutExact ==
    /\ Len(ocr_tasks) = page_count
    /\ Range(ocr_tasks) = 0..(page_count - 1)
    /\ Len(page_results) = page_count
    /\ Cardinality(Range(completion)) = Len(completion)
    /\ ocr_pc = "done" =>
          \A i \in 1..Len(ocr_output.blocks) :
              /\ ocr_output.blocks[i].page \in 0..(page_count - 1)
              /\ i > 1 => ocr_output.blocks[i - 1].page <= ocr_output.blocks[i].page
C8_Witness ==
    /\ ocr_pc = "done"
    /\ page_count = MaxPages
    /\ Len(ocr_output.blocks) >= 2
    /\ ocr_output.blocks[1].page # ocr_output.blocks[Len(ocr_output.blocks)].page

\* Blocks of the task issued for page p, as its result reports them.
BlocksOfPage(p) ==
    LET r == page_results[CHOOSE j \in 1..Len(ocr_tasks) : ocr_tasks[j] = p].value
    IN  IF r.success THEN r.blocks ELSE <<>>
RECURSIVE BlocksFromPage(_)
BlocksFromPage(p) ==
    IF p >= page_count THEN <<>> ELSE BlocksOfPage(p) \o BlocksFromPage(p + 1)
\* C9: the aggregated block list depends on the page results only, not on
\* the order in which the page tasks settled: it is the concatenation of the
\* pages' blocks in ascending page index.
C9_CompletionOrderIrrelevant ==
    ocr_pc = "done" => ocr_output.blocks = BlocksFromPage(0)
C9_Witness ==
    /\ ocr_pc = "done"
    /\ Len(completion) >= 2
    /\ completion[1] > completion[2]
    /\ BlocksOfPage(completion[1]) # <<>>
    /\ BlocksOfPage(completion[2]) # <<>>

\* C10: the fan-in is left only after every page task has settled, and a
\* failed page task (a failure result or a terminal error) never makes the
\* OCR workflow end with that error instead of aggregating.
C10_JoinWaitsForAll ==
    ocr_pc \in {"done", "raised"} =>
        /\ \A j \in 1..Len(page_results) : page_results[j] # Pending
        /\ ocr_pc = "raised" => \A j \in 1..Len(page_results) : page_results[j] # Raised

\* Every page task of the fan-out returned a failed PageOCRResult.
AllPagesFailed ==
    /\ page_count > 0
    /\ \A j \in 1..Len(page_results) :
          page_results[j] = Returned(PageFailed(ocr_tasks[j]))
FailedPageSet ==
    {ocr_tasks[j] : j \in {i \in 1..Len(page_results) :
        /\ page_results[i].state = "result"
        /\ ~page_results[i].value.success}}
SucceededPageSet ==
    {ocr_tasks[j] : j \in {i \in 1..Len(page_results) :
        /\ page_results[i].state = "result"
        /\ page_results[i].value.success}}
PagesWithBlocks ==
    {ocr_tasks[j] : j \in {i \in 1..Len(page_results) :
        /\ page_results[i].state = "result"
        /\ page_results[i].value.success
        /\ page_results[i].value.blocks # <<>>}}
\* What C12 promises of a partially failed fan-out.
PartialFailureAbsorbed ==
    /\ ocr_output.success
    /\ ocr_output.error = None
    /\ \A i \in 1..Len(ocr_output.blocks) :
          ocr_output.blocks[i].page \notin FailedPageSet
    /\ \E w \in warnings :
          /\ w.text = "OCR failed on pages"
          /\ Range(w.pages) = FailedPageSet
          /\ Len(w.pages) = Cardinality(FailedPageSet)
    /\ (pc = "done" /\ result.success) => result.error = <<>>
FtfyFailed == ~cleanup_locals.ftfy_result.success
RulesFailed == ~cleanup_locals.rules_result.success
GeminiFailed == ~cleanup_locals.gemini_result.success
C14_CleanupAbsorbsExhaustion ==
    /\ cleanup_pc # "raised"
    /\ ~(pc = "raised" /\ "cleanup" \in Range(started))

\* A call of the OCR lookup or page count, of Translation or of
\* Site-Generation ended with a terminal error.
PhaseCallExhausted ==
    \/ ocr_pc = "raised" /\ ~GatherRaises(page_results)
    \/ translation_pc = "raised"
    \/ site_pc = "raised"
\* C15: when an activity call of the OCR lookup or page count, of
\* Translation or of Site-Generation ends with a terminal error, the job
\* does not end without a result: it ends with a PDFTranslationOutput whose
\* success is false and whose error names the phase and the error.
C15_ExhaustionYieldsJobResult ==
    PhaseCallExhausted =>
        /\ pc # "raised"
        /\ pc = "done" => (~result.success /\ result.error # <<>>)

\* An API_RETRY call whose every attempt failed has ended.
ApiCallExhausted == retry.policy = "API_RETRY" /\ retry.status = "failed"
\* C16 as stated: such a call has waited 2, 4, 8, 16 and 30 seconds.
C16_FiveWaits ==
    ApiCallExhausted => retry.waits = <<2, 4, 8, 16, 30>>
\* C16: an API_RETRY call (initial 2 s, maximum 30 s, coefficient 2.0,
\* 5 attempts) whose every attempt fails waits 2, 4, 8 and 16 seconds, in that
\* order, between its five attempts, and the fifth failure is returned with
\* no further wait.
C16_BackoffSequence ==
    /\ retry.policy = "API_RETRY" => IsPrefix(retry.waits, <<2, 4, 8, 16>>)
    /\ ApiCallExhausted =>
          /\ retry.waits = <<2, 4, 8, 16>>
          /\ retry.attempt = 5
          /\ Len(retry.errors) = 5
C16_Witness ==
    /\ ApiCallExhausted
    /\ Len(retry.waits) = 4

\* The most attempts each policy allows.
MaximumAttempts(name) ==
    CASE name = "API_RETRY" -> 5
      [] name = "QUICK_RETRY" -> 3
      [] name = "LLM_RETRY" -> 3
\* Once an attempt succeeded the call makes no further attempt.
NoAttemptAfterSuccess ==
    [][retry.status = "completed" => retry' = retry]_vars
AttemptsBounded ==
    retry.status # "idle" =>
        /\ retry.attempt <= MaximumAttempts(retry.policy)
        /\ retry.status = "failed" =>
              /\ retry.attempt = MaximumAttempts(retry.policy)
              /\ Len(retry.errors) = retry.attempt
              /\ retry.error = retry.errors[Len(retry.errors)]
        /\ retry.status = "completed" => retry.error = None
\* C17: under every retry policy a call is attempted at most
\* maximum_attempts times (5 for API_RETRY, 3 for QUICK_RETRY, 3 for
\* LLM_RETRY), no attempt follows a successful attempt, and the error
\* returned on exhaustion is the error of the last attempt.
C17_AttemptsBounded ==
    []AttemptsBounded /\ NoAttemptAfterSuccess
C17_Witness ==
    /\ retry.policy = "LLM_RETRY"
    /\ retry.status = "failed"
    /\ retry.errors = <<"error_a", "error_a", "error_b">>

\* Position of a phase in the order the progress snapshot documents.
PhaseRank(phase) ==
    CHOOSE i \in 1..6 :
        <<"initializing", "ocr", "translation", "site_generation",
          "cleanup", "complete">>[i] = phase
\* C18: the phase get_progress reports never moves backward along
\* initializing, ocr, translation, site_generation, cleanup, complete.
C18_PhaseMonotonic ==
    [][PhaseRank(get_progress'.phase) >= PhaseRank(get_progress.phase)]_vars
C18_Witness ==
    /\ pc = "done"
    /\ get_progress.phase = "complete"
    /\ started = <<"ocr", "translation", "site", "cleanup">>

C20_LookupFailureNotFatal ==
    [][(ocr_pc = "search" /\ ocr_pc' # "search") =>
          /\ ocr_pc' = "pagecount"
          /\ ocr_locals'.product_url = "" =>
                /\ ocr_locals'.product_name = ""
                /\ ocr_locals'.product_description = ""
                /\ ocr_locals'.blog_url = ""]_vars

\* stage3_gemini_cleanup returned a valid response with a corrected name.
CorrectorGaveName ==
    /\ cleanup_pc = "done"
    /\ gemini_call.returned[3] = None
    /\ gemini_call.returned[2] # None
\* C21: when the corrector returns a valid response that applied k
\* corrections and gives a corrected product name c, the Cleanup output has
\* gemini_corrections = k and corrected_product_name = c, and the result of
\* the job has product_name = c.
C21_CorrectedNameUsed ==
    CorrectorGaveName =>
        /\ cleanup_output.gemini_corrections = gemini_call.returned[1]
        /\ cleanup_output.corrected_product_name = gemini_call.returned[2]
        /\ pc = "done" => result.product_name = gemini_call.returned[2]

\* The job ended with a failed phase: run returned a failure output.
JobFailed == pc = "done" /\ ~result.success
\* C22: for a job that ended with a failed phase the polling loop of the
\* translate command is not stuck: the command has left the loop or can
\* leave it now, and once it has the result it reports the failure with the
\* error of the result.
C22_PollingEndsOnFailure ==
    JobFailed =>
        /\ cli.pc = "polling" => ENABLED CliPollBreaks
        /\ cli.pc = "reported" =>
              (~cli.report.success /\ cli.report.error = result.error)

\* The lookup resolved a URL: the parent took a successful OCR output that
\* has one, so the test "if not ocr_result.product_url" skips the suspension.
LookupResolved ==
    /\ ocr_result # Nothing
    /\ ocr_result.success
    /\ ocr_result.product_url # ""
C25_CompleteIffSuccess ==
    /\ (get_progress.phase = "complete") <=> (pc = "done" /\ result.success)
    /\ (pc = "done" /\ result.success) =>
          /\ result.ocr_blocks = Len(ocr_output.blocks)
          /\ result.translated_blocks =
                Len(translation_output.translated_blocks)
    /\ (pc = "raised" \/ JobFailed) => get_progress.phase # "complete"
C25_Witness ==
    /\ pc = "done"
    /\ result.success
    /\ get_progress.phase = "complete"
    /\ result.ocr_blocks > result.translated_blocks
    /\ result.translated_blocks > 0

\* C26: the OCR output has success true exactly when its block list is not
\* empty; with 0 pages, or with every page task succeeding without a block,
\* it has success false and the error "No text blocks found" although no
\* page failed.
C26_SuccessIffBlocks ==
    ocr_pc = "done" =>
        /\ ocr_output.success <=> (ocr_output.blocks # <<>>)
        /\ ocr_output.success <=> (PagesWithBlocks # {})
        /\ ocr_output.success => ocr_output.error = None
        /\ ~ocr_output.success => ocr_output.error = "No text blocks found"
        /\ page_count = 0 => ~ocr_output.success
C26_Witness ==
    /\ ocr_pc = "done"
    /\ page_count >= 2
    /\ FailedPageSet = {}
    /\ Cardinality(SucceededPageSet) = page_count
    /\ ~ocr_output.success
    /\ ocr_output.error = "No text blocks found"

\* C27: a page OCR call (API_RETRY) whose attempt fails with a service or
\* network error is retried, and the failure result that marks the page as
\* failed is returned only after the attempts of the policy are used up,
\* never after a single failed attempt.
C27_PageFailedOnlyAfterRetries ==
    (retry.policy = "API_RETRY" /\ retry.returned = "failure_result")
        => retry.attempt = API_RETRY.maximum_attempts

\* C28: every execution of gemini_cleanup_activity in which the corrector
\* was called and returned has a heartbeat directly before the call and a
\* heartbeat after its return, whether the corrector returned corrections or
\* an error.
C28_HeartbeatsAroundCorrector ==
    gemini_call # Nothing =>
        gemini_call.events = <<"heartbeat", "stage3_gemini_cleanup", "heartbeat">>

\* C29: every output of a child workflow with success false has zero or
\* empty payload fields: an OCROutput no blocks, page_count 0 and empty
\* product fields; a TranslationOutput no translated blocks; a
\* SiteGenerationOutput empty paths and counts 0.
C29_FailedOutputsEmpty ==
    /\ (ocr_pc = "done" /\ ~ocr_output.success) =>
          /\ ocr_output.blocks = <<>>
          /\ ocr_output.page_count = 0
          /\ ocr_output.product_url = ""
          /\ ocr_output.product_name = ""
          /\ ocr_output.product_description = ""
          /\ ocr_output.blog_url = ""
    /\ (translation_pc = "done" /\ ~translation_output.success) =>
          translation_output.translated_blocks = <<>>
    /\ (site_pc = "done" /\ ~site_output.success) =>
          /\ site_output.json_path = ""
          /\ site_output.html_path = ""
          /\ site_output.page_count = 0
          /\ site_output.block_count = 0

\* The steps CleanupWorkflow.run can take from one stage to the next.
CleanupStageOrder ==
    {<<"idle", "ftfy">>, <<"ftfy", "rules">>, <<"rules", "gemini">>,
     <<"gemini", "done">>}
\* C30: the Cleanup stages run one at a time in the order ftfy, rules,
\* Gemini; a stage that returns a failed result is followed by the next
\* stage all the same, and contributes 0 to its counter of the output.
C30_CleanupStagesInOrder ==
    /\ [][cleanup_pc' # cleanup_pc =>
            \/ <<cleanup_pc, cleanup_pc'>> \in CleanupStageOrder
            \/ cleanup_pc \in {"ftfy", "rules", "gemini"} /\ cleanup_pc' = "raised"]_vars
    /\ [](cleanup_pc \in {"rules", "gemini", "done"} =>
            (FtfyFailed => cleanup_locals.ftfy_fixes = 0))
    /\ [](cleanup_pc \in {"gemini", "done"} =>
            (RulesFailed => cleanup_locals.rule_removals = 0))
    /\ [](cleanup_pc = "done" =>
            /\ gemini_call # Nothing
            /\ FtfyFailed => cleanup_output.ftfy_fixes = 0
            /\ RulesFailed => cleanup_output.rule_removals = 0
            /\ GeminiFailed => cleanup_output.gemini_corrections = 0)
C30_Witness ==
    /\ cleanup_pc = "done"
    /\ FtfyFailed
    /\ ~RulesFailed
    /\ cleanup_output.rule_removals = 1
    /\ GeminiFailed

\* The activity calls that are outstanding, other than page OCR tasks:
\* each workflow awaits the one its position names.
OutstandingCalls ==
    (IF ocr_pc \in {"search", "pagecount"} THEN {ocr_pc} ELSE {})
        \cup (IF translation_pc = "activity" THEN {"translate"} ELSE {})
        \cup (IF site_pc = "activity" THEN {"site"} ELSE {})
        \cup (IF cleanup_pc \in {"ftfy", "rules", "gemini"}
               THEN {cleanup_pc} ELSE {})
\* The page OCR tasks that are outstanding.
OutstandingPages ==
    {ocr_tasks[j] : j \in {i \in 1..Len(page_results) :
                              page_results[i] = Pending}}
\* C31: at every moment at most one activity call is outstanding, except
\* during the OCR fan-out, when only page OCR tasks are; lookup, page count,
\* translation, site generation and the cleanup stages are never outstanding
\* together with another call.
C31_OneOutstandingCall ==
    /\ Cardinality(OutstandingCalls) <= 1
    /\ OutstandingCalls # {} => OutstandingPages = {}
    /\ OutstandingPages # {} => ocr_pc \in {"gather", "raised"}
C31_Witness ==
    /\ ocr_pc = "gather"
    /\ Cardinality(OutstandingPages) >= 2
    /\ OutstandingCalls = {}

\* C32: the product lookup runs while the observable phase is still
\* initializing: get_progress never reports phase ocr while the lookup call
\* has not settled.
C32_LookupBeforeOcrPhase ==
    ocr_pc = "search" => get_progress.phase = "initializing"

\* C33: each phase that completes successfully has, before the next phase
\* starts, put a completion summary in its status string and the totals it
\* discovered in the snapshot: page and block count after OCR, the block
\* count after Translation, page and block counts after Site-Generation, and
\* the three stage counters after Cleanup.
C33_PhaseUpdatesStatusAndTotals ==
    /\ pc = "translation" =>
          /\ progress.pages_total = ocr_result.page_count
          /\ progress.blocks_total = Len(ocr_result.blocks)
    /\ pc = "site" =>
          /\ progress.translation_progress = "Complete: blocks"
          /\ progress.blocks_total = Len(translation_result.translated_blocks)
    /\ pc = "cleanup" =>
          /\ progress.site_progress = "Complete: pages"
          /\ progress.pages_total = site_result.page_count
          /\ progress.blocks_total = site_result.block_count
    /\ (pc = "done" /\ result.success /\ ~skip_cleanup) =>
          progress.cleanup_progress =
              <<"Complete", cleanup_result.ftfy_fixes,
                cleanup_result.rule_removals,
                cleanup_result.gemini_corrections>>

\* C34: whenever the observable phase is translation, site_generation,
\* cleanup or complete the snapshot's waiting_for_url flag is false, and the
\* workflow's internal _waiting_for_url flag always equals the snapshot's.
C34_WaitingFlagCleared ==
    /\ get_progress.phase \in {"translation", "site_generation", "cleanup",
                                "complete"}
          => ~get_progress.waiting_for_url
    /\ waiting_for_url = get_progress.waiting_for_url
C34_Witness ==
    /\ get_progress.phase = "translation"
    /\ resumes >= 1
    /\ susp_signal # None
    /\ ~get_progress.waiting_for_url

\* C35: a job started with skip_cleanup = true never invokes a Cleanup
\* stage and never shows phase cleanup; once Site-Generation has succeeded
\* the phase is complete, the cleanup status is "Skipped", and the job
\* result has success = true and the product name found by the lookup.
C35_SkipCleanup ==
    skip_cleanup =>
        /\ cleanup_pc = "idle"
        /\ "cleanup" \notin Range(started)
        /\ gemini_call = Nothing
        /\ get_progress.phase # "cleanup"
        /\ (site_result # Nothing /\ site_result.success) =>
              /\ pc = "done"
              /\ get_progress.phase = "complete"
              /\ get_progress.cleanup_progress = <<"Skipped">>
              /\ result.success
              /\ result.product_name = ocr_result.product_name
\* A job with skip_cleanup whose product was found ends at Site-Generation.
C35_Witness ==
    /\ skip_cleanup
    /\ site_result # Nothing
    /\ site_result.success
    /\ result.success
    /\ result.product_name = FoundName
    /\ get_progress.cleanup_progress = <<"Skipped">>

\* C36: the workers spawned by translate serve every workflow type and
\* activity type the started job invokes, so no task of the job fails for
\* want of a worker that has its type registered.
C36_WorkerServesJob ==
    worker.started =>
        /\ JobWorkflows \subseteq WorkerWorkflows
        /\ JobActivities \subseteq WorkerActivities
        /\ worker.attempt = 1

\* PDFTranslationWorkflow.run is over: it returned or it raised.
RunEnded == pc \in {"done", "raised"}
\* C37: a run in which every call settles and every suspension is ended
\* comes to a terminal state, which is phase complete with success = true or
\* an early-abort result with success = false: a run that is over has one
\* of these two results.
C37_RunEndsInTerminalState ==
    RunEnded =>
        /\ result # Nothing
        /\ \/ result.success /\ get_progress.phase = "complete"
           \/ ~result.success /\ result.error # <<>>

\* The activity calls PDFTranslationWorkflow and its children made, in
\* order, in a run that has returned.
JobCalls ==
    <<Call("search_product_url_activity", -1),
      Call("get_pdf_page_count_activity", -1)>>
        \o [j \in 1..Len(ocr_tasks) |-> Call("ocr_page_activity", ocr_tasks[j])]
        \o (IF "translation" \in Range(started)
            THEN <<Call("translate_blocks_activity", -1)>> ELSE <<>>)
        \o (IF "site" \in Range(started)
            THEN <<Call("generate_site_activity", -1)>> ELSE <<>>)
        \o (IF "cleanup" \in Range(started)
            THEN <<Call("ftfy_cleanup_activity", -1),
                   Call("rule_based_cleanup_activity", -1),
                   Call("gemini_cleanup_activity", -1)>>
            ELSE <<>>)
\* C38: when the product lookup resolves a URL, DocAITranslateWorkflow and
\* PDFTranslationWorkflow make the same calls in the same order and return
\* the same success flag, ocr_blocks, translated_blocks, product_url and
\* product_name.
C38_LegacyEquivalent ==
    (pc = "done" /\ legacy.pc = "done" /\ ocr_locals.product_url # "") =>
        /\ legacy.calls = JobCalls
        /\ legacy.output.success = result.success
        /\ legacy.output.ocr_blocks = result.ocr_blocks
        /\ legacy.output.translated_blocks = result.translated_blocks
        /\ legacy.output.product_url = result.product_url
        /\ legacy.output.product_name = result.product_name

\* C39: any two job starts, also two for the same document name, are given
\* different job ids, and so the child workflow ids derived from them are
\* different across runs.
C39_JobIdsUnique ==
    \A i, j \in 1..Len(starts.ids) :
        i # j =>
            /\ starts.ids[i] # starts.ids[j]
            /\ ChildIds(starts.ids[i]) \cap ChildIds(starts.ids[j]) = {}

====
